---- MODULE Spec2Model ----
(***************************************************************************)
(* Model of src/main.py: the GhostPay and Duckfy webhook handlers, the     *)
(* phone-number normalisation they both carry, the status/method routing   *)
(* and the single outbound send_sms call.                                  *)
(*                                                                         *)
(* Strings the code inspects character by character (phone numbers) are    *)
(* sequences of one-character strings; strings the code only compares      *)
(* (status, paymentMethod, token) are TLA+ strings.  A request body is a   *)
(* JSON object; a key that is not in the object has the value Absent.      *)
(***************************************************************************)
EXTENDS Naturals, Sequences, FiniteSets

VARIABLES
    twilio_client,                \* "Client" or "None"            (main.py:36-44)
    TWILIO_PHONE_NUMBER,          \* TRUE when the variable is set (main.py:27)
    DUCKFY_WEBHOOK_TOKEN_CONFIG,  \* Absent, "" or the token       (main.py:51)
    pc,                           \* "idle" or "responded"
    endpoint,                     \* route of the call being answered
    request,                      \* the call's request
    outcome,                      \* what messages.create did in this call
    result,                       \* what the handler returned and did
    outbox,                       \* destination of every send_sms call so far
    deliveries                    \* history: phone of every valid PIX+PENDING call

vars == << twilio_client, TWILIO_PHONE_NUMBER, DUCKFY_WEBHOOK_TOKEN_CONFIG,
           pc, endpoint, request, outcome, result, outbox, deliveries >>

config == << twilio_client, TWILIO_PHONE_NUMBER, DUCKFY_WEBHOOK_TOKEN_CONFIG >>

-----------------------------------------------------------------------------
(* Bounds *)

\* send_sms calls in one behaviour
MaxSms == 2

\* longest run of one repeated digit in a generated phone string
MaxRun == 12

-----------------------------------------------------------------------------
(* Values *)

Absent == "<absent>"

Digits == {"0", "1", "2", "3", "4", "5", "6", "7", "8", "9"}

\* str.isdigit on one character
IsDigit(c) == c \in Digits

\* s.startswith(prefix)
StartsWith(s, prefix) ==
    /\ Len(s) >= Len(prefix)
    /\ SubSeq(s, 1, Len(prefix)) = prefix

\* ''.join(filter(str.isdigit, s))
DigitsOf(s) == SelectSeq(s, IsDigit)

RECURSIVE Rep(_, _)
Rep(c, n) == IF n = 0 THEN << >> ELSE << c >> \o Rep(c, n - 1)

-----------------------------------------------------------------------------
(* Phone normalisation and the E.164 sanity check, one copy per handler *)

\* main.py:111-123
NormalizeGhostpay(raw_phone_ghostpay) ==
    LET digits_ghostpay == DigitsOf(raw_phone_ghostpay) IN
    IF StartsWith(raw_phone_ghostpay, << "+" >>)
    THEN raw_phone_ghostpay
    ELSE IF /\ StartsWith(digits_ghostpay, << "5", "5" >>)
            /\ (Len(digits_ghostpay) = 12 \/ Len(digits_ghostpay) = 13)
    THEN << "+" >> \o digits_ghostpay
    ELSE IF Len(digits_ghostpay) = 10 \/ Len(digits_ghostpay) = 11
    THEN << "+", "5", "5" >> \o digits_ghostpay
    ELSE << "+" >> \o digits_ghostpay

\* Variant: the country-code rule applied to 11 or 12 digits.
NormalizeDuckfyOffByOne(raw_phone) ==
    LET digits == DigitsOf(raw_phone) IN
    IF StartsWith(raw_phone, << "+" >>)
    THEN raw_phone
    ELSE IF /\ StartsWith(digits, << "5", "5" >>)
            /\ (Len(digits) = 11 \/ Len(digits) = 12)
    THEN << "+" >> \o digits
    ELSE IF Len(digits) = 10 \/ Len(digits) = 11
    THEN << "+", "5", "5" >> \o digits
    ELSE << "+" >> \o digits

\* main.py:203-215
NormalizeDuckfy(raw_phone) ==
    LET digits == DigitsOf(raw_phone) IN
    IF StartsWith(raw_phone, << "+" >>)
    THEN raw_phone
    ELSE IF /\ StartsWith(digits, << "5", "5" >>)
            /\ (Len(digits) = 12 \/ Len(digits) = 13)
    THEN << "+" >> \o digits
    ELSE IF Len(digits) = 10 \/ Len(digits) = 11
    THEN << "+", "5", "5" >> \o digits
    ELSE << "+" >> \o digits

\* Variant: more than 11 characters required.
SaneGhostpayStrict(customer_phone_e164) ==
    StartsWith(customer_phone_e164, << "+" >>) /\ Len(customer_phone_e164) > 11

\* main.py:126
SaneGhostpay(customer_phone_e164) ==
    StartsWith(customer_phone_e164, << "+" >>) /\ Len(customer_phone_e164) >= 11

\* Variant: either half of the test is enough.
SaneDuckfyEither(customer_phone_e164) ==
    StartsWith(customer_phone_e164, << "+" >>) \/ Len(customer_phone_e164) >= 11

\* main.py:217
SaneDuckfy(customer_phone_e164) ==
    StartsWith(customer_phone_e164, << "+" >>) /\ Len(customer_phone_e164) >= 11

-----------------------------------------------------------------------------
(* send_sms *)

\* What twilio_client.messages.create can do when it is reached.
ProviderOutcomes == {"sent", "TwilioRestException", "Exception"}

\* Variant: only TwilioRestException is caught.
send_sms_uncaught(to_phone_number, o) ==
    IF twilio_client = "None"
    THEN [ok |-> FALSE, created |-> FALSE, raised |-> FALSE]
    ELSE IF ~TWILIO_PHONE_NUMBER
    THEN [ok |-> FALSE, created |-> FALSE, raised |-> FALSE]
    ELSE IF o = "sent"
    THEN [ok |-> TRUE, created |-> TRUE, raised |-> FALSE]
    ELSE IF o = "TwilioRestException"
    THEN [ok |-> FALSE, created |-> TRUE, raised |-> FALSE]
    ELSE [ok |-> FALSE, created |-> TRUE, raised |-> TRUE]

\* main.py:53-75.  ok: the return value; created: messages.create was called;
\* raised: an exception left send_sms.
send_sms(to_phone_number, o) ==
    IF twilio_client = "None"
    THEN [ok |-> FALSE, created |-> FALSE, raised |-> FALSE]
    ELSE IF ~TWILIO_PHONE_NUMBER
    THEN [ok |-> FALSE, created |-> FALSE, raised |-> FALSE]
    ELSE IF o = "sent"
    THEN [ok |-> TRUE, created |-> TRUE, raised |-> FALSE]
    ELSE IF o = "TwilioRestException"
    THEN [ok |-> FALSE, created |-> TRUE, raised |-> FALSE]
    ELSE [ok |-> FALSE, created |-> TRUE, raised |-> FALSE]

-----------------------------------------------------------------------------
(* Requests *)

Statuses == {Absent, "PENDING", "APPROVED", "COMPLETED", "REFUSED"}

PaymentMethods == {Absent, "PIX", "CREDIT_CARD"}

Tokens == {Absent, "secret", "wrong"}

PhoneE164 == << "+", "5", "5", "1", "1", "9", "8", "7", "6", "5", "4", "3", "2", "1" >>

PhoneLocal == << "2", "1", "9", "8", "7", "6", "5", "4", "3", "2", "1" >>

PhoneShort == << "1", "2", "3", "4", "5" >>

PhonePlusShort == << "+", "1", "2", "3" >>

HandlerPhones == {PhoneE164, PhoneLocal, PhoneShort, PhonePlusShort}

\* The customer / client member of a body: missing, not an object, or an
\* object that may hold a phone string.
Parties(phones) ==
    {[kind |-> k, has_phone |-> FALSE, phone |-> << >>] : k \in {"absent", "nondict", "dict"}}
    \cup {[kind |-> "dict", has_phone |-> TRUE, phone |-> p] : p \in phones \cup {<< >>}}

GhostpayData(phones, statuses, methods, tokens) ==
    [paymentId : BOOLEAN, totalValue : BOOLEAN, status : statuses,
     paymentMethod : methods, customer : Parties(phones), token : tokens]

Transactions(statuses, methods) ==
    {[kind |-> k, id |-> FALSE, amount |-> FALSE, status |-> Absent, paymentMethod |-> Absent] :
        k \in {"absent", "nondict"}}
    \cup [kind : {"dict"}, id : BOOLEAN, amount : BOOLEAN, status : statuses,
          paymentMethod : methods]

DuckfyData(phones, statuses, methods, tokens) ==
    [token : tokens, transaction : Transactions(statuses, methods), client : Parties(phones)]

NoData == [none |-> TRUE]

\* A request whose content type is not JSON: its body is never read.
NonJson == [is_json |-> FALSE, data |-> NoData]

Json(datas) == {[is_json |-> TRUE, data |-> d] : d \in datas}

GhostpayRequests ==
    {NonJson} \cup Json(GhostpayData(HandlerPhones, Statuses, PaymentMethods, {Absent, "wrong"}))

DuckfyRequests ==
    {NonJson} \cup Json(DuckfyData(HandlerPhones, Statuses, PaymentMethods, Tokens))

\* Phone strings of every shape the normalisation distinguishes: a prefix,
\* a run of one digit, a suffix.
PhonePrefixes ==
    { << >>, << "+" >>, << "+", "5", "5" >>, << "+", "x" >>, << "5", "5" >>, << "5" >>,
      << "(" >>, << " ", "+" >>, << "0", "5", "5" >> }

PhoneSuffixes == { << >>, << "-", "4" >>, << " " >> }

PhoneInputs ==
    {pre \o Rep(c, n) \o suf :
        pre \in PhonePrefixes, c \in {"1", "5"}, n \in 0..MaxRun, suf \in PhoneSuffixes}

\* Otherwise complete events that are not routed to send_sms, one per phone string.
GhostpayPhoneRequests ==
    Json({d \in GhostpayData(PhoneInputs, {"REFUSED"}, {"PIX"}, {Absent}) :
            d.paymentId /\ d.totalValue /\ d.customer.has_phone})

DuckfyPhoneRequests ==
    Json({d \in DuckfyData(PhoneInputs, {"REFUSED"}, {"PIX"}, {Absent, "secret"}) :
            /\ d.transaction.kind = "dict" /\ d.transaction.id /\ d.transaction.amount
            /\ d.client.has_phone})

-----------------------------------------------------------------------------
(* Handlers *)

\* jsonify({'status': status, ...}), code; nothing sent.
Reply(code, status) ==
    [code |-> code, status |-> status, normalized |-> FALSE, e164 |-> << >>,
     sms |-> << >>, created |-> FALSE]

\* The reply of a handler that got as far as customer_phone_e164.
ReplyWithPhone(code, status, e164) ==
    [Reply(code, status) EXCEPT !.normalized = TRUE, !.e164 = e164]

\* Flask's answer to an exception that leaves a view function.
Unhandled(e164, s) ==
    [ReplyWithPhone(500, "unhandled", e164) EXCEPT !.sms = << e164 >>, !.created = s.created]

\* main.py:142-146 and 237-241: the reply after send_sms(customer_phone_e164, ...)
AfterSend(e164, s) ==
    IF s.raised THEN Unhandled(e164, s)
    ELSE IF s.ok
    THEN [ReplyWithPhone(200, "success", e164) EXCEPT !.sms = << e164 >>, !.created = s.created]
    ELSE [ReplyWithPhone(500, "error", e164) EXCEPT !.sms = << e164 >>, !.created = s.created]

\* main.py:90-91
GhostpayMissingFields(data) ==
    {f \in {"paymentId", "status", "paymentMethod", "customer", "totalValue"} :
        CASE f = "paymentId" -> ~data.paymentId
          [] f = "status" -> data.status = Absent
          [] f = "paymentMethod" -> data.paymentMethod = Absent
          [] f = "customer" -> data.customer.kind = "absent"
          [] f = "totalValue" -> ~data.totalValue}

\* Variant: the paid branch asks for PIX too.
GhostpayRoutePixOnly(data, customer_phone_e164, o) ==
    IF data.paymentMethod = "PIX" /\ data.status = "PENDING"
    THEN AfterSend(customer_phone_e164, send_sms(customer_phone_e164, o))
    ELSE IF data.paymentMethod = "PIX" /\ data.status = "APPROVED"
    THEN ReplyWithPhone(200, "success", customer_phone_e164)
    ELSE ReplyWithPhone(200, "ignored", customer_phone_e164)

\* Variant: the other provider's paid status is acknowledged as well.
GhostpayRouteCompleted(data, customer_phone_e164, o) ==
    IF data.paymentMethod = "PIX" /\ data.status = "PENDING"
    THEN AfterSend(customer_phone_e164, send_sms(customer_phone_e164, o))
    ELSE IF data.status = "APPROVED" \/ data.status = "COMPLETED"
    THEN ReplyWithPhone(200, "success", customer_phone_e164)
    ELSE ReplyWithPhone(200, "ignored", customer_phone_e164)

\* main.py:132-154
GhostpayRoute(data, customer_phone_e164, o) ==
    IF data.paymentMethod = "PIX" /\ data.status = "PENDING"
    THEN AfterSend(customer_phone_e164, send_sms(customer_phone_e164, o))
    ELSE IF data.status = "APPROVED"
    THEN ReplyWithPhone(200, "success", customer_phone_e164)
    ELSE ReplyWithPhone(200, "ignored", customer_phone_e164)

\* Variant: the paid branch is taken before the phone number is checked.
GhostpayResultLateCheck(req, o) ==
    IF ~req.is_json THEN Reply(400, "error")
    ELSE LET data == req.data
             customer_info == data.customer IN
    IF GhostpayMissingFields(data) # {} THEN Reply(400, "error")
    ELSE IF \/ customer_info.kind # "dict"
            \/ ~(customer_info.has_phone /\ customer_info.phone # << >>)
    THEN Reply(400, "error")
    ELSE LET customer_phone_e164 == NormalizeGhostpay(customer_info.phone) IN
    IF data.status = "APPROVED"
    THEN ReplyWithPhone(200, "success", customer_phone_e164)
    ELSE IF ~SaneGhostpay(customer_phone_e164)
    THEN ReplyWithPhone(400, "error", customer_phone_e164)
    ELSE GhostpayRoute(data, customer_phone_e164, o)

\* main.py:83-154
GhostpayResult(req, o) ==
    IF ~req.is_json THEN Reply(400, "error")
    ELSE LET data == req.data
             customer_info == data.customer IN
    IF GhostpayMissingFields(data) # {} THEN Reply(400, "error")
    ELSE IF \/ customer_info.kind # "dict"
            \/ ~(customer_info.has_phone /\ customer_info.phone # << >>)
    THEN Reply(400, "error")
    ELSE LET customer_phone_e164 == NormalizeGhostpay(customer_info.phone) IN
    IF ~SaneGhostpay(customer_phone_e164)
    THEN ReplyWithPhone(400, "error", customer_phone_e164)
    ELSE GhostpayRoute(data, customer_phone_e164, o)

\* main.py:166-169
DuckfyTokenRejected(data) ==
    /\ DUCKFY_WEBHOOK_TOKEN_CONFIG \notin {Absent, ""}
    /\ data.token # DUCKFY_WEBHOOK_TOKEN_CONFIG

\* main.py:178-179
DuckfyMissingTxFields(transaction_data) ==
    {f \in {"id", "status", "paymentMethod", "amount"} :
        CASE f = "id" -> ~transaction_data.id
          [] f = "status" -> transaction_data.status = Absent
          [] f = "paymentMethod" -> transaction_data.paymentMethod = Absent
          [] f = "amount" -> ~transaction_data.amount}

\* Variant: the reminder goes out on the wrong status.
DuckfyRouteSwapped(transaction_data, customer_phone_e164, o) ==
    IF transaction_data.paymentMethod # "PIX"
    THEN ReplyWithPhone(200, "ignored", customer_phone_e164)
    ELSE IF transaction_data.status = "COMPLETED"
    THEN AfterSend(customer_phone_e164, send_sms(customer_phone_e164, o))
    ELSE IF transaction_data.status = "PENDING"
    THEN ReplyWithPhone(200, "success", customer_phone_e164)
    ELSE ReplyWithPhone(200, "ignored", customer_phone_e164)

\* main.py:223-249
DuckfyRoute(transaction_data, customer_phone_e164, o) ==
    IF transaction_data.paymentMethod # "PIX"
    THEN ReplyWithPhone(200, "ignored", customer_phone_e164)
    ELSE IF transaction_data.status = "PENDING"
    THEN AfterSend(customer_phone_e164, send_sms(customer_phone_e164, o))
    ELSE IF transaction_data.status = "COMPLETED"
    THEN ReplyWithPhone(200, "success", customer_phone_e164)
    ELSE ReplyWithPhone(200, "ignored", customer_phone_e164)

\* Variant: the token is compared after the body has been validated.
DuckfyResultLateToken(req, o) ==
    IF ~req.is_json THEN Reply(400, "error")
    ELSE LET data == req.data
             transaction_data == data.transaction
             client_data == data.client IN
    IF transaction_data.kind # "dict" \/ client_data.kind # "dict"
    THEN Reply(400, "error")
    ELSE IF DuckfyMissingTxFields(transaction_data) # {} THEN Reply(400, "error")
    ELSE IF ~client_data.has_phone THEN Reply(400, "error")
    ELSE IF DuckfyTokenRejected(data) THEN Reply(403, "error")
    ELSE LET customer_phone_e164 == NormalizeDuckfy(client_data.phone) IN
    IF ~SaneDuckfy(customer_phone_e164)
    THEN ReplyWithPhone(400, "error", customer_phone_e164)
    ELSE DuckfyRoute(transaction_data, customer_phone_e164, o)

\* main.py:159-249
DuckfyResult(req, o) ==
    IF ~req.is_json THEN Reply(400, "error")
    ELSE LET data == req.data
             transaction_data == data.transaction
             client_data == data.client IN
    IF DuckfyTokenRejected(data) THEN Reply(403, "error")
    ELSE IF transaction_data.kind # "dict" \/ client_data.kind # "dict"
    THEN Reply(400, "error")
    ELSE IF DuckfyMissingTxFields(transaction_data) # {} THEN Reply(400, "error")
    ELSE IF ~client_data.has_phone THEN Reply(400, "error")
    ELSE LET customer_phone_e164 == NormalizeDuckfy(client_data.phone) IN
    IF ~SaneDuckfy(customer_phone_e164)
    THEN ReplyWithPhone(400, "error", customer_phone_e164)
    ELSE DuckfyRoute(transaction_data, customer_phone_e164, o)

-----------------------------------------------------------------------------
(* History: which calls the routing table sends a reminder for *)

\* The phone string of a body that holds one.
PhoneOf(ep, req) ==
    IF ep = "ghostpay" THEN req.data.customer.phone ELSE req.data.client.phone

\* The body has every member its handler requires (main.py:90-101, 171-188).
WellFormed(ep, req) ==
    /\ req.is_json
    /\ IF ep = "ghostpay"
       THEN /\ req.data.paymentId /\ req.data.totalValue
            /\ req.data.status # Absent /\ req.data.paymentMethod # Absent
            /\ req.data.customer.kind = "dict" /\ req.data.customer.has_phone
            /\ req.data.customer.phone # << >>
       ELSE /\ req.data.transaction.kind = "dict" /\ req.data.client.kind = "dict"
            /\ req.data.transaction.id /\ req.data.transaction.amount
            /\ req.data.transaction.status # Absent
            /\ req.data.transaction.paymentMethod # Absent
            /\ req.data.client.has_phone

\* The Duckfy token comparison lets the body through (main.py:167).
TokenAccepted(ep, req) ==
    \/ ep = "ghostpay"
    \/ DUCKFY_WEBHOOK_TOKEN_CONFIG \in {Absent, ""}
    \/ req.data.token = DUCKFY_WEBHOOK_TOKEN_CONFIG

StatusOf(ep, req) ==
    IF ep = "ghostpay" THEN req.data.status ELSE req.data.transaction.status

MethodOf(ep, req) ==
    IF ep = "ghostpay" THEN req.data.paymentMethod ELSE req.data.transaction.paymentMethod

\* The number a phone string is rewritten to, as the rule is documented:
\* unchanged after a leading '+'; '+' and the digits for 12 or 13 digits that
\* begin with 55; '+55' and the digits for 10 or 11 digits; else '+' and the digits.
E164Of(p) ==
    LET d == DigitsOf(p) IN
    IF Len(p) > 0 /\ p[1] = "+" THEN p
    ELSE IF Len(d) \in {12, 13} /\ d[1] = "5" /\ d[2] = "5" THEN << "+" >> \o d
    ELSE IF Len(d) \in {10, 11} THEN << "+", "5", "5" >> \o d
    ELSE << "+" >> \o d

\* The number passes the sanity check as documented: a leading '+' and at
\* least 11 characters.
Plausible(n) == Len(n) >= 11 /\ n[1] = "+"

\* A call with a complete, accepted body and a plausible phone number.
Valid(ep, req) ==
    /\ WellFormed(ep, req)
    /\ TokenAccepted(ep, req)
    /\ Plausible(E164Of(PhoneOf(ep, req)))

\* A valid event for a pending PIX payment.
PendingPix(ep, req) ==
    /\ Valid(ep, req)
    /\ MethodOf(ep, req) = "PIX"
    /\ StatusOf(ep, req) = "PENDING"

-----------------------------------------------------------------------------
(* The state machine *)

NoResult == Reply(0, "none")

\* main.py:24-51: the credentials read at startup decide twilio_client.
Init ==
    /\ \E creds \in BOOLEAN, number \in BOOLEAN, constructed \in BOOLEAN :
        /\ TWILIO_PHONE_NUMBER = number
        /\ twilio_client = IF creds /\ number /\ constructed THEN "Client" ELSE "None"
    /\ DUCKFY_WEBHOOK_TOKEN_CONFIG \in {Absent, "", "secret"}
    /\ pc = "idle"
    /\ endpoint = "none"
    /\ request = NonJson
    /\ outcome = "not_called"
    /\ result = NoResult
    /\ outbox = << >>
    /\ deliveries = << >>


\* Variant: a number that already got a reminder is not sent another.
ghostpay_webhook_dedup(requests) ==
    /\ pc = "idle"
    /\ Len(outbox) < MaxSms
    /\ \E req \in requests, o \in ProviderOutcomes \cup {"not_called"} :
        LET full == GhostpayResult(req, o)
            seen == \E i \in DOMAIN outbox : << outbox[i] >> = full.sms
            r == IF seen THEN ReplyWithPhone(200, "success", full.e164) ELSE full IN
        /\ r.created <=> o # "not_called"
        /\ pc' = "responded"
        /\ endpoint' = "ghostpay"
        /\ request' = req
        /\ outcome' = o
        /\ result' = r
        /\ outbox' = outbox \o r.sms
        /\ deliveries' = IF PendingPix("ghostpay", req)
                         THEN Append(deliveries, PhoneOf("ghostpay", req))
                         ELSE deliveries
    /\ UNCHANGED config

\* main.py:77-154, one POST to /webhook/ghostpay with a request of `requests`.
\* The whole handler runs in one step, its send_sms call included; the
\* provider's outcome is drawn only when messages.create is reached.  MaxSms
\* caps the length of the history.
ghostpay_webhook(requests) ==
    /\ pc = "idle"
    /\ Len(outbox) < MaxSms
    /\ \E req \in requests, o \in ProviderOutcomes \cup {"not_called"} :
        LET r == GhostpayResult(req, o) IN
        /\ r.created <=> o # "not_called"
        /\ pc' = "responded"
        /\ endpoint' = "ghostpay"
        /\ request' = req
        /\ outcome' = o
        /\ result' = r
        /\ outbox' = outbox \o r.sms
        /\ deliveries' = IF PendingPix("ghostpay", req)
                         THEN Append(deliveries, PhoneOf("ghostpay", req))
                         ELSE deliveries
    /\ UNCHANGED config

\* main.py:156-249, one POST to /webhook/duckfy with a request of `requests`.
duckfy_webhook(requests) ==
    /\ pc = "idle"
    /\ Len(outbox) < MaxSms
    /\ \E req \in requests, o \in ProviderOutcomes \cup {"not_called"} :
        LET r == DuckfyResult(req, o) IN
        /\ r.created <=> o # "not_called"
        /\ pc' = "responded"
        /\ endpoint' = "duckfy"
        /\ request' = req
        /\ outcome' = o
        /\ result' = r
        /\ outbox' = outbox \o r.sms
        /\ deliveries' = IF PendingPix("duckfy", req)
                         THEN Append(deliveries, PhoneOf("duckfy", req))
                         ELSE deliveries
    /\ UNCHANGED config

\* The reply leaves and the request context is torn down; nothing of the
\* call is kept by the process.
Respond ==
    /\ pc = "responded"
    /\ pc' = "idle"
    /\ endpoint' = "none"
    /\ request' = NonJson
    /\ outcome' = "not_called"
    /\ result' = NoResult
    /\ UNCHANGED << config, outbox, deliveries >>

GhostpayCall == ghostpay_webhook(GhostpayRequests)

DuckfyCall == duckfy_webhook(DuckfyRequests)

Next == GhostpayCall \/ DuckfyCall \/ Respond

Spec == Init /\ [][Next]_vars

\* The same handlers on events that differ only in the phone string.
GhostpayPhoneCall == ghostpay_webhook(GhostpayPhoneRequests)

DuckfyPhoneCall == duckfy_webhook(DuckfyPhoneRequests)

NextPhone == GhostpayPhoneCall \/ DuckfyPhoneCall \/ Respond

SpecPhone == Init /\ [][NextPhone]_vars

-----------------------------------------------------------------------------
(* Properties *)

Responded == pc = "responded"

\* The call got through every check that precedes the phone normalisation.
Accepted == Responded /\ WellFormed(endpoint, request) /\ TokenAccepted(endpoint, request)

Phone == PhoneOf(endpoint, request)

PaidStatus(ep) == IF ep = "ghostpay" THEN "APPROVED" ELSE "COMPLETED"

NoSms == result.sms = << >>

\* C1: in both handlers the normalised number of a phone string p with digits
\* d is p itself when p starts with '+', else '+' d when d has 12 or 13 digits
\* and starts with 55, else '+55' d when d has 10 or 11 digits, else '+' d;
\* and the two handlers compute the same number for the same p.
C1_Normalization ==
    Accepted =>
        LET p == Phone
            d == DigitsOf(p)
            expected ==
                IF Len(p) > 0 /\ p[1] = "+" THEN p
                ELSE IF Len(d) \in {12, 13} /\ SubSeq(d, 1, 2) = << "5", "5" >>
                THEN << "+" >> \o d
                ELSE IF Len(d) \in {10, 11} THEN << "+", "5", "5" >> \o d
                ELSE << "+" >> \o d IN
        /\ result.normalized
        /\ result.e164 = expected
        /\ NormalizeGhostpay(p) = expected
        /\ NormalizeDuckfy(p) = expected

\* A Duckfy call whose 13 digits begin with the country code came back with
\* '+' and the digits.
C1_Witness ==
    /\ Accepted
    /\ endpoint = "duckfy"
    /\ Len(Phone) > 13
    /\ Phone[1] # "+"
    /\ Len(DigitsOf(Phone)) = 13
    /\ result.e164 = << "+" >> \o DigitsOf(Phone)

\* C2: a call that clears the payload-shape checks and whose normalised
\* number lacks the leading '+' or is shorter than 11 characters is answered
\* 400 with no send_sms call, whatever its status and payment method.
C2_BadPhoneRejected ==
    Accepted =>
        /\ result.normalized
        /\ (~Plausible(result.e164) => result.code = 400 /\ result.status = "error" /\ NoSms)

\* An event in the provider's paid status with a five-digit phone got 400.
C2_Witness ==
    /\ Accepted
    /\ Phone = PhoneShort
    /\ StatusOf(endpoint, request) = PaidStatus(endpoint)
    /\ result.code = 400
    /\ NoSms

\* C3: for both providers a valid call with paymentMethod PIX and status
\* PENDING calls send_sms once with the normalised number, and is answered
\* 200 'success' when the send succeeds.
C3_PendingPixSends ==
    Responded /\ PendingPix(endpoint, request) =>
        /\ result.sms = << E164Of(Phone) >>
        /\ result.e164 = E164Of(Phone)
        /\ (outcome = "sent" => result.code = 200 /\ result.status = "success")

C3_Witness ==
    /\ Responded
    /\ endpoint = "duckfy"
    /\ PendingPix(endpoint, request)
    /\ Phone = PhoneLocal
    /\ outcome = "sent"
    /\ result.code = 200
    /\ result.status = "success"
    /\ Len(result.sms) = 1

\* C4 as stated: a valid call in the provider's paid status (APPROVED for
\* GhostPay, COMPLETED for Duckfy) is answered 200 'success' with no send_sms
\* call whatever its paymentMethod.
C4_PaidStatusAlone ==
    Responded /\ Valid(endpoint, request)
        /\ StatusOf(endpoint, request) = PaidStatus(endpoint) =>
        result.code = 200 /\ result.status = "success" /\ NoSms

\* C4 amended: a valid call in the provider's paid status is answered 200 with
\* no send_sms call; the status is 'success' for GhostPay whatever the
\* paymentMethod and for Duckfy when the paymentMethod is PIX, and 'ignored'
\* for Duckfy with any other paymentMethod.
C4_PaidStatus ==
    Responded /\ Valid(endpoint, request)
        /\ StatusOf(endpoint, request) = PaidStatus(endpoint) =>
        /\ result.code = 200
        /\ NoSms
        /\ result.status =
            IF endpoint = "duckfy" /\ MethodOf(endpoint, request) # "PIX"
            THEN "ignored" ELSE "success"

\* An APPROVED GhostPay card payment was acknowledged.
C4_Witness ==
    /\ Responded
    /\ endpoint = "ghostpay"
    /\ Valid(endpoint, request)
    /\ StatusOf(endpoint, request) = "APPROVED"
    /\ MethodOf(endpoint, request) = "CREDIT_CARD"
    /\ result.code = 200
    /\ result.status = "success"
    /\ NoSms

\* C5: a valid call that is neither PIX+PENDING nor in the provider's paid
\* status is answered 200 'ignored' with no send_sms call.
C5_OtherIgnored ==
    Responded /\ Valid(endpoint, request)
        /\ ~(MethodOf(endpoint, request) = "PIX" /\ StatusOf(endpoint, request) = "PENDING")
        /\ StatusOf(endpoint, request) # PaidStatus(endpoint) =>
        result.code = 200 /\ result.status = "ignored" /\ NoSms

\* A GhostPay event in the other provider's paid status was ignored.
C5_Witness ==
    /\ Responded
    /\ endpoint = "ghostpay"
    /\ Valid(endpoint, request)
    /\ StatusOf(endpoint, request) = "COMPLETED"
    /\ result.status = "ignored"
    /\ NoSms

\* What a call is answered and which number it sends to, as a table over the
\* call's own request, the startup configuration and the provider's outcome.
Decision(ep, req, o) ==
    IF ~req.is_json THEN << 400, "error", << >> >>
    ELSE IF ~TokenAccepted(ep, req) THEN << 403, "error", << >> >>
    ELSE IF ~WellFormed(ep, req) THEN << 400, "error", << >> >>
    ELSE IF ~Plausible(E164Of(PhoneOf(ep, req))) THEN << 400, "error", << >> >>
    ELSE IF MethodOf(ep, req) = "PIX" /\ StatusOf(ep, req) = "PENDING"
    THEN IF o = "sent"
         THEN << 200, "success", << E164Of(PhoneOf(ep, req)) >> >>
         ELSE << 500, "error", << E164Of(PhoneOf(ep, req)) >> >>
    ELSE IF /\ StatusOf(ep, req) = PaidStatus(ep)
            /\ (ep = "ghostpay" \/ MethodOf(ep, req) = "PIX")
    THEN << 200, "success", << >> >>
    ELSE << 200, "ignored", << >> >>

\* C6: calls are independent and stateless: the answer of a call and whether
\* it calls send_sms are fixed by its own request, the startup configuration
\* and the provider's outcome for that call, whatever calls came before; and
\* there is no deduplication: the send_sms calls so far are, one for one and in
\* order, the valid PIX+PENDING deliveries so far, repeated ones included.
C6_Stateless ==
    /\ Len(outbox) = Len(deliveries)
    /\ \A i \in DOMAIN outbox : outbox[i] = E164Of(deliveries[i])
    /\ Responded =>
        << result.code, result.status, result.sms >> = Decision(endpoint, request, outcome)

\* The same phone was delivered twice in valid PIX+PENDING events and
\* send_sms was called both times.
C6_Witness ==
    /\ Responded
    /\ PendingPix(endpoint, request)
    /\ Len(deliveries) = 2
    /\ deliveries[1] = deliveries[2]
    /\ Len(outbox) = 2
    /\ outbox[1] = outbox[2]
    /\ result.sms = << outbox[2] >>

\* C7: there is no retry: a call makes at most one send_sms call, and when
\* that send fails (the provider raises any error, the client was not
\* initialised at startup, or the sender number is not configured) send_sms
\* returns False without raising and the call is answered 500 'error' with no
\* second attempt.
C7_NoRetry ==
    Responded =>
        /\ Len(result.sms) <= 1
        /\ (~NoSms /\ ( \/ outcome \in {"TwilioRestException", "Exception"}
                        \/ twilio_client = "None"
                        \/ ~TWILIO_PHONE_NUMBER ) =>
                /\ result.code = 500
                /\ result.status = "error"
                /\ Len(result.sms) = 1)

\* The provider raised an error that is not a TwilioRestException.
C7_Witness ==
    /\ Responded
    /\ outcome = "Exception"
    /\ result.code = 500
    /\ result.status = "error"
    /\ Len(result.sms) = 1

C9_SendOnlyIf ==
    /\ \A i \in DOMAIN outbox : Plausible(outbox[i])
    /\ Responded /\ ~NoSms =>
        /\ request.is_json
        /\ WellFormed(endpoint, request)
        /\ TokenAccepted(endpoint, request)
        /\ MethodOf(endpoint, request) = "PIX"
        /\ StatusOf(endpoint, request) = "PENDING"
        /\ \A i \in DOMAIN result.sms : Plausible(result.sms[i])

\* send_sms was called with the number a GhostPay local phone was rewritten to.
C9_Witness ==
    /\ Responded
    /\ ~NoSms
    /\ endpoint = "ghostpay"
    /\ Phone = PhoneLocal
    /\ result.sms = << << "+", "5", "5" >> \o PhoneLocal >>

\* C10: a phone string without a leading '+' is rejected with 400 exactly when
\* it holds fewer than 10 digits; one with a leading '+' exactly when it is
\* shorter than 11 characters, whatever follows the '+'.  The normalised
\* number always starts with '+', so a rejection is always for length.
C10_RejectedIffShort ==
    Accepted =>
        LET p == Phone
            plus == Len(p) > 0 /\ p[1] = "+" IN
        /\ (~plus => (result.code = 400 <=> Len(DigitsOf(p)) < 10))
        /\ (plus => (result.code = 400 <=> Len(p) < 11))
        /\ result.e164[1] = "+"
        /\ (result.code = 400 => Len(result.e164) < 11)

\* Twelve digits that do not begin with 55, after a bracket: the fallback
\* case, accepted.
C10_Witness ==
    /\ Accepted
    /\ endpoint = "ghostpay"
    /\ Len(Phone) > 12
    /\ Phone[1] = "("
    /\ Len(DigitsOf(Phone)) = 12
    /\ DigitsOf(Phone)[1] = "1"
    /\ result.code = 200

====
